---- MODULE Spec2Model ----
(***************************************************************************)
(* CyberJournal: key hierarchy, entry codec, blind index and the           *)
(* credential operations of src/cyberjournal/logic.py over the row store   *)
(* of src/cyberjournal/db.py.                                              *)
(*                                                                         *)
(* Cryptography is symbolic: a key, a digest or a ciphertext is the term   *)
(* that records what it was computed from, so two values are equal exactly *)
(* when they were computed from equal inputs.  The DEK and the KEK salt    *)
(* that secrets.token_bytes returns are numbered by the credential         *)
(* generation that drew them (two generations never collide); nonces are   *)
(* drawn from the small set Nonces.                                        *)
(*                                                                         *)
(* Every db.* call opens its own connection and commits on its own, so a   *)
(* handler that awaits several db calls is a sequence of steps; the        *)
(* variable task holds the handler in flight and its locals.  Handlers     *)
(* that write are serialised (one task at a time), as the single UI event  *)
(* loop does it.                                                           *)
(***************************************************************************)
EXTENDS Integers, Sequences, FiniteSets, TLC

\* ---------------------------------------------------------------- bounds
MaxEntries == 2   \* entry ids handed out by AUTOINCREMENT
MaxKeys == 3      \* DEK/salt draws from secrets.token_bytes

\* ------------------------------------------------------- program constants
DEK_LEN == 32
HKDF_INFO_ENC == "cyberjournal/enc-key"
HKDF_INFO_HMAC == "cyberjournal/search-key"
WRAP_INFO == "wrap-key"

\* ------------------------------------------------------------------ text
\* A str is a sequence of one-character strings.
WordChars == {"a", "b", "c", "A", "B"}
SpaceChars == {" ", "\n"}
OtherChars == {"!", "_", "?"}
Chars == WordChars \cup SpaceChars \cup OtherChars

\* str.lower() on one character
LowerChar(c) ==
  CASE c = "A" -> "a"
    [] c = "B" -> "b"
    [] OTHER -> c

\* ord() of one character
Ord(c) ==
  CASE c = "a" -> 97
    [] c = "b" -> 98
    [] c = "c" -> 99
    [] c = "A" -> 65
    [] c = "B" -> 66
    [] c = " " -> 32
    [] c = "\n" -> 10
    [] c = "!" -> 33
    [] c = "_" -> 95
    [] c = "?" -> 63

\* chr() of one byte
Chr(n) == CHOOSE c \in Chars : Ord(c) = n

\* str.encode("utf-8") and bytes.decode() on the ASCII alphabet
encode(s) == [i \in 1..Len(s) |-> Ord(s[i])]
decode(bs) == [i \in 1..Len(bs) |-> Chr(bs[i])]

\* str.lower()
lower(s) == [i \in 1..Len(s) |-> LowerChar(s[i])]

\* str.strip(): drop leading and trailing whitespace
RECURSIVE lstrip(_)
lstrip(s) ==
  IF s # <<>> /\ Head(s) \in SpaceChars THEN lstrip(Tail(s)) ELSE s

RECURSIVE rstrip(_)
rstrip(s) ==
  IF s # <<>> /\ s[Len(s)] \in SpaceChars
    THEN rstrip(SubSeq(s, 1, Len(s) - 1))
    ELSE s

\* mutant: nothing is stripped
strip_none(s) == s

strip(s) == lstrip(rstrip(s))

\* TOKEN_SPLIT_RE = [\W_]+ : a separator is any non-word character or "_"
IsSep(c) == c \notin WordChars

\* TOKEN_SPLIT_RE.split(s): the pieces between maximal runs of separators,
\* empty pieces at either end included.  cur is the piece being read,
\* insep says that the previous character was a separator.
RECURSIVE re_split(_, _, _)
re_split(s, cur, insep) ==
  IF s = <<>> THEN <<cur>>
  ELSE IF IsSep(Head(s))
    THEN IF insep THEN re_split(Tail(s), cur, TRUE)
                  ELSE <<cur>> \o re_split(Tail(s), <<>>, TRUE)
    ELSE re_split(Tail(s), Append(cur, Head(s)), FALSE)

\* [p for p in pieces if p]
\* mutant: empty strings are kept as tokens
drop_empty_none(ps) == ps

RECURSIVE drop_empty(_)
drop_empty(ps) ==
  IF ps = <<>> THEN <<>>
  ELSE IF Head(ps) = <<>> THEN drop_empty(Tail(ps))
  ELSE <<Head(ps)>> \o drop_empty(Tail(ps))

normalize_tokens(text) == drop_empty(re_split(lower(text), <<>>, FALSE))

Range(f) == {f[i] : i \in DOMAIN f}

\* set(normalize_tokens(title) + normalize_tokens(body))
entry_terms_of(title, body) ==
  Range(normalize_tokens(title) \o normalize_tokens(body))

\* ---------------------------------------------------------------- crypto
\* PH.hash / PH.verify (Argon2id): verification succeeds on the hashed
\* password only.
PH_hash(password) == [argon2 |-> encode(password)]

\* mutant: verification accepts every input
PH_verify_any(hash, password) == TRUE

\* mutant: verification compares the lengths only
PH_verify_len(hash, password) == Len(hash.argon2) = Len(encode(password))

PH_verify(hash, password) == hash.argon2 = encode(password)

scrypt_kdf(password, salt) == [scrypt |-> encode(password), salt |-> salt]

hkdf_derive(key_material, info) == [hkdf |-> key_material, info |-> info]

\* AES-GCM: the ciphertext (with its tag) is bound to key, nonce,
\* plaintext and associated data.
aesgcm_encrypt(key, nonce, plaintext, aad) ==
  [nonce |-> nonce,
   ct |-> [key |-> key, nonce |-> nonce, pt |-> plaintext, aad |-> aad]]

\* mutant: the associated data is not authenticated
aesgcm_decrypt_no_aad(key, nonce, ciphertext, aad) ==
  IF ciphertext.key = key /\ ciphertext.nonce = nonce
    THEN [ok |-> TRUE, pt |-> ciphertext.pt]
    ELSE [ok |-> FALSE, pt |-> <<>>]

\* AESGCM(key).decrypt: the plaintext, or InvalidTag (ok = FALSE)
aesgcm_decrypt(key, nonce, ciphertext, aad) ==
  IF ciphertext.key = key /\ ciphertext.nonce = nonce /\ ciphertext.aad = aad
    THEN [ok |-> TRUE, pt |-> ciphertext.pt]
    ELSE [ok |-> FALSE, pt |-> <<>>]

hmac_token(search_key, token) == [hmac |-> search_key, msg |-> encode(token)]

\* the wrap key of a password and a KEK salt (logic.py: scrypt then hkdf)
wrap_key_of(password, kek_salt) ==
  hkdf_derive(scrypt_kdf(password, kek_salt), WRAP_INFO)

enc_key_of(dek) == hkdf_derive(dek, HKDF_INFO_ENC)
search_key_of(dek) == hkdf_derive(dek, HKDF_INFO_HMAC)

SessionKeys(user_id, username, dek) ==
  [user_id |-> user_id, username |-> username, dek |-> dek,
   enc_key |-> enc_key_of(dek), search_key |-> search_key_of(dek)]

\* secrets.token_bytes(len) of credential generation k
token_bytes(k, len) == [rand |-> k, len |-> len]

\* ---------------------------------------------------------------- inputs
Usernames == {<<"a">>}
UsernameInputs == Usernames \cup {<<"b">>}
Passwords == {<<"a">>, <<"b">>}
RegisterPasswords == {<<"a">>}
NewPasswords == {<<"b">>, <<>>}
PasswordInputs == Passwords \cup {<<>>}
Questions == {<<"c", "?">>, <<" ">>}
Answers == {<<"c">>}
AnswerInputs == Answers \cup {<<"b">>, <<>>}
Texts == {[title |-> <<"A">>, body |-> <<"b", "_", "a">>],
          [title |-> <<"!">>, body |-> <<>>]}
Queries == {<<"a">>, <<"B", " ", "a">>, <<"?">>, <<"b">>}
Nonces == {"n0"}
EntryIds == 1..MaxEntries

\* ----------------------------------------------------------------- state
VARIABLES
  users,        \* table users
  entries,      \* table entries
  entry_terms,  \* table entry_terms: rows (entry_id, term_hash)
  seq_entries,  \* sqlite_sequence of entries: the last id handed out
  rng,          \* credential generations drawn so far
  sessions,     \* SessionKeys objects returned to callers
  task,         \* the handler in flight and its locals
  ret           \* <<operation, outcome>> of the last handler that returned,
                \* Pending while a handler is in flight

vars == <<users, entries, entry_terms, seq_entries, rng, sessions, task, ret>>
store == <<users, entries, entry_terms>>

Idle == [op |-> "idle"]
Pending == <<"", "pending">>

\* the database file as shutil.copy2 copies it
Snapshot == [users |-> users, entries |-> entries, entry_terms |-> entry_terms]

\* mutant: the copy's failure is swallowed and the caller goes on
backup_database_unchecked(copy_ok) ==
  IF copy_ok THEN [ok |-> TRUE, copy |-> Snapshot]
             ELSE [ok |-> TRUE, copy |-> [users |-> {}, entries |-> {}, entry_terms |-> {}]]

\* _backup_database: raises (ok = FALSE) when the file is missing or the copy
\* fails, else leaves a copy of the database file; copy_ok is the
\* environment's answer
backup_database(copy_ok) ==
  IF copy_ok THEN [ok |-> TRUE, copy |-> Snapshot]
             ELSE [ok |-> FALSE, copy |-> [users |-> {}, entries |-> {}, entry_terms |-> {}]]

Init ==
  /\ users = {}
  /\ entries = {}
  /\ entry_terms = {}
  /\ seq_entries = 0
  /\ rng = 0
  /\ sessions = {}
  /\ task = Idle
  /\ ret = <<"init_db", "ok">>

\* ------------------------------------------------------------- row store
\* PRAGMA foreign_keys is a per-connection setting; SCHEMA_SQL switches it
\* on for the connection of init_db only, every other db.* call connects
\* with SQLite's default, under which ON DELETE CASCADE does not run.
foreign_keys == FALSE

\* mutant: the SELECT has no WHERE clause
get_user_by_username_any(username) == users

\* mutant: the SELECT matches no row
get_user_by_username_none(username) == {}

get_user_by_username(username) == {u \in users : u.username = username}

insert_user(username, pwd_hash, kek_salt, dek_wrapped, dek_wrap_nonce, security_question, security_answer_hash) ==
  users \cup {[id |-> Cardinality(users) + 1,
               username |-> username,
               pwd_hash |-> pwd_hash,
               kek_salt |-> kek_salt,
               dek_wrapped |-> dek_wrapped,
               dek_wrap_nonce |-> dek_wrap_nonce,
               security_question |-> security_question,
               security_answer_hash |-> security_answer_hash]}

\* mutant: the UPDATE leaves pwd_hash out of its SET list
update_user_credentials_no_hash(user_id, pwd_hash, kek_salt, dek_wrapped, dek_wrap_nonce) ==
  {IF u.id = user_id
     THEN [u EXCEPT !.kek_salt = kek_salt,
                    !.dek_wrapped = dek_wrapped,
                    !.dek_wrap_nonce = dek_wrap_nonce]
     ELSE u : u \in users}

\* mutant: the UPDATE leaves kek_salt out of its SET list
update_user_credentials_no_salt(user_id, pwd_hash, kek_salt, dek_wrapped, dek_wrap_nonce) ==
  {IF u.id = user_id
     THEN [u EXCEPT !.pwd_hash = pwd_hash,
                    !.dek_wrapped = dek_wrapped,
                    !.dek_wrap_nonce = dek_wrap_nonce]
     ELSE u : u \in users}

update_user_credentials(user_id, pwd_hash, kek_salt, dek_wrapped, dek_wrap_nonce) ==
  {IF u.id = user_id
     THEN [u EXCEPT !.pwd_hash = pwd_hash,
                    !.kek_salt = kek_salt,
                    !.dek_wrapped = dek_wrapped,
                    !.dek_wrap_nonce = dek_wrap_nonce]
     ELSE u : u \in users}

insert_entry_row(user_id, created_at, t, b, m, m_fmt) ==
  entries \cup {[id |-> seq_entries + 1,
                 user_id |-> user_id,
                 created_at |-> created_at,
                 title_nonce |-> t.nonce, title_ct |-> t.ct,
                 body_nonce |-> b.nonce, body_ct |-> b.ct,
                 map_nonce |-> <<m.nonce>>, map_ct |-> <<m.ct>>,
                 map_format |-> m_fmt]}

\* INSERT OR IGNORE under UNIQUE(entry_id, term_hash)
insert_entry_terms(pairs) == entry_terms \cup pairs

clear_entry_terms(entry_id) == {r \in entry_terms : r.entry_id # entry_id}

\* SELECT ... WHERE user_id = ? ORDER BY created_at DESC
RECURSIVE order_desc(_)
order_desc(rows) ==
  IF rows = {} THEN <<>>
  ELSE LET r == CHOOSE x \in rows : \A y \in rows : y.created_at <= x.created_at
       IN <<r>> \o order_desc(rows \ {r})

list_entry_rows_for_user(user_id) ==
  order_desc({e \in entries : e.user_id = user_id})

\* mutant: the SELECT filters on the entry id only
get_entry_row_any_user(user_id, entry_id) == {e \in entries : e.id = entry_id}

get_entry_row(user_id, entry_id) ==
  {e \in entries : e.id = entry_id /\ e.user_id = user_id}

get_entry_ids_for_term(term_hash) ==
  {r.entry_id : r \in {x \in entry_terms : x.term_hash = term_hash}}

update_entry_row(entry_id, user_id, t, b) ==
  {IF e.id = entry_id /\ e.user_id = user_id
     THEN [e EXCEPT !.title_nonce = t.nonce, !.title_ct = t.ct,
                    !.body_nonce = b.nonce, !.body_ct = b.ct]
     ELSE e : e \in entries}

update_entry_row_with_map(entry_id, user_id, t, b, map_nonce, map_ct, map_format) ==
  {IF e.id = entry_id /\ e.user_id = user_id
     THEN [e EXCEPT !.title_nonce = t.nonce, !.title_ct = t.ct,
                    !.body_nonce = b.nonce, !.body_ct = b.ct,
                    !.map_nonce = map_nonce, !.map_ct = map_ct,
                    !.map_format = map_format]
     ELSE e : e \in entries}

\* the rows of entry_terms that a DELETE on entries leaves behind
terms_after_delete(deleted_ids) ==
  IF foreign_keys
    THEN {r \in entry_terms : r.entry_id \notin deleted_ids}
    ELSE entry_terms

delete_entry_row(entry_id, user_id) ==
  {e \in entries : ~(e.id = entry_id /\ e.user_id = user_id)}

\* mutant: the DELETE compares the wrong column
delete_entries_for_user_by_id(user_id) == {e \in entries : e.id # user_id}

delete_entries_for_user(user_id) == {e \in entries : e.user_id # user_id}

\* --------------------------------------------------------------- helpers
\* datetime.utcnow().isoformat() read by add_entry: the timestamps of
\* successive calls increase, the k-th call reads k.
utcnow == seq_entries + 1

\* _render_entry_map_text: the map is a deterministic function of
\* f"{title}\n{body}".strip(); the map text is named by the text that seeds it.
render_entry_map_text(title, body) ==
  [text_seed |-> strip(title \o <<"\n">> \o body)]

\* map_text.encode("utf-8") and .decode() of a rendered map
encode_map(map_text) == [utf8 |-> map_text]
decode_map(bs) == bs.utf8

\* the blind-index rows of an entry: (entry_id, hmac_token(search_key, t))
index_pairs(entry_id, search_key, title, body) ==
  {[entry_id |-> entry_id, term_hash |-> hmac_token(search_key, t)] :
     t \in entry_terms_of(title, body)}

\* fresh credentials for a password (register, change_password and
\* reset_password draw them the same way): DEK, KEK salt, wrapped DEK
new_credentials(username, password, nonce) ==
  LET dek == token_bytes(rng + 1, DEK_LEN)
      kek_salt == token_bytes(rng + 1, 16)
      w == aesgcm_encrypt(wrap_key_of(password, kek_salt), nonce, dek, encode(username))
  IN [dek |-> dek,
      pwd_hash |-> PH_hash(password),
      kek_salt |-> kek_salt,
      dek_wrapped |-> w.ct,
      dek_wrap_nonce |-> w.nonce]

Return(op, outcome) == /\ task' = Idle
                       /\ ret' = <<op, outcome>>

\* ------------------------------------------------------------- register
register_user(username, password, security_question, security_answer, nonce) ==
  /\ task.op = "idle"
  /\ IF strip(security_question) = <<>> \/ strip(security_answer) = <<>>
       THEN /\ Return("register", "ValidationError")
            /\ UNCHANGED <<store, seq_entries, rng, sessions>>
     ELSE IF get_user_by_username(username) # {}
       THEN /\ Return("register", "DuplicateUser")   \* UNIQUE(username)
            /\ UNCHANGED <<store, seq_entries, rng, sessions>>
     ELSE /\ rng < MaxKeys
          /\ LET c == new_credentials(username, password, nonce)
             IN users' = insert_user(username, c.pwd_hash, c.kek_salt,
                                     c.dek_wrapped, c.dek_wrap_nonce,
                                     security_question, PH_hash(security_answer))
          /\ rng' = rng + 1
          /\ Return("register", "ok")
          /\ UNCHANGED <<entries, entry_terms, seq_entries, sessions>>

\* ---------------------------------------------------------------- login
\* the outcome of login_user on the current store: the error kind, or the
\* session keys
login_result(username, password) ==
  LET rows == get_user_by_username(username) IN
  IF rows = {} THEN [err |-> "UserNotFound"]
  ELSE LET row == CHOOSE r \in rows : TRUE IN
    IF ~PH_verify(row.pwd_hash, password) THEN [err |-> "AuthenticationFailure"]
    ELSE LET d == aesgcm_decrypt(wrap_key_of(password, row.kek_salt),
                                 row.dek_wrap_nonce, row.dek_wrapped,
                                 encode(row.username))
         IN IF ~d.ok THEN [err |-> "InvalidTag"]
            ELSE [err |-> "ok", sess |-> SessionKeys(row.id, row.username, d.pt)]

login_user(username, password) ==
  /\ task.op = "idle"
  /\ LET r == login_result(username, password) IN
     /\ sessions' = IF r.err = "ok" THEN sessions \cup {r.sess} ELSE sessions
     /\ Return("login", r.err)
  /\ UNCHANGED <<store, seq_entries, rng>>

\* ------------------------------------------------------ change_password
\* for entry in rows (logic.py 215): the loop body runs while rows are left,
\* the credential swap follows the last row
\* mutant: the loop leaves after the first row
loop_pc_once(rows) == "cred"

loop_pc(rows) == IF rows = <<>> THEN "cred" ELSE "row"

\* logic.py 189-214: validation, password check, backup, new keys, and the
\* snapshot of the user's rows that the migration loop walks
change_password_begin(sess, current_password, new_password, nonce) ==
  /\ task.op = "idle"
  /\ UNCHANGED <<store, seq_entries, sessions>>
  /\ IF current_password = <<>> \/ new_password = <<>>
       THEN Return("change_password", "ValidationError") /\ UNCHANGED rng
     ELSE IF get_user_by_username(sess.username) = {}
       THEN Return("change_password", "UserNotFound") /\ UNCHANGED rng
     ELSE IF ~PH_verify((CHOOSE r \in get_user_by_username(sess.username) : TRUE).pwd_hash,
                        current_password)
       THEN Return("change_password", "AuthenticationFailure") /\ UNCHANGED rng
     ELSE \E copy_ok \in BOOLEAN :
       IF ~backup_database(copy_ok).ok
         THEN Return("change_password", "BackupFailure") /\ UNCHANGED rng
       ELSE /\ rng < MaxKeys
            /\ rng' = rng + 1
            /\ LET rows == list_entry_rows_for_user(sess.user_id) IN
               task' = [op |-> "change_password",
                        pc |-> loop_pc(rows),
                        sess |-> sess,
                        current_password |-> current_password,
                        new |-> new_credentials(sess.username, new_password, nonce),
                        rows |-> rows,
                        title |-> <<>>,
                        body |-> <<>>,
                        backup |-> backup_database(copy_ok).copy]
            /\ ret' = Pending

\* mutant: the loop re-encrypts under the session's key again
new_enc_key_old(t) == t.sess.enc_key

\* the key the migration loop re-encrypts under (logic.py 211)
new_enc_key(t) == enc_key_of(t.new.dek)

\* the key the migration loop re-indexes under (logic.py 212)
new_search_key(t) == search_key_of(t.new.dek)

\* logic.py 216-257: decrypt one row under the session's key, re-encrypt it
\* under the new key, update the row
change_password_row(nt, nb, nm) ==
  /\ task.op = "change_password" /\ task.pc = "row"
  /\ UNCHANGED <<users, entry_terms, seq_entries, rng, sessions>>
  /\ LET sess == task.sess
         aad == encode(sess.username)
         entry == Head(task.rows)
         title == aesgcm_decrypt(sess.enc_key, entry.title_nonce, entry.title_ct, aad)
         body == aesgcm_decrypt(sess.enc_key, entry.body_nonce, entry.body_ct, aad)
         map == IF entry.map_ct # <<>>
                  THEN aesgcm_decrypt(sess.enc_key, entry.map_nonce[1], entry.map_ct[1], aad)
                  ELSE [ok |-> TRUE, pt |-> <<>>]
     IN IF ~title.ok \/ ~body.ok \/ ~map.ok
          THEN /\ Return("change_password", "InvalidTag")
               /\ UNCHANGED entries
          ELSE LET m == aesgcm_encrypt(new_enc_key(task), nm,
                                       encode_map(decode_map(map.pt)), aad)
                   t == aesgcm_encrypt(new_enc_key(task), nt, encode(decode(title.pt)), aad)
                   b == aesgcm_encrypt(new_enc_key(task), nb, encode(decode(body.pt)), aad)
               IN /\ entries' = update_entry_row_with_map(
                                  entry.id, sess.user_id, t, b,
                                  IF entry.map_ct # <<>> THEN <<m.nonce>> ELSE <<>>,
                                  IF entry.map_ct # <<>> THEN <<m.ct>> ELSE <<>>,
                                  entry.map_format)
                  /\ task' = [task EXCEPT !.pc = "clear",
                                          !.title = decode(title.pt),
                                          !.body = decode(body.pt)]
                  /\ UNCHANGED ret

\* logic.py 259
change_password_clear ==
  /\ task.op = "change_password" /\ task.pc = "clear"
  /\ entry_terms' = clear_entry_terms(Head(task.rows).id)
  /\ task' = [task EXCEPT !.pc = "insert"]
  /\ UNCHANGED <<users, entries, seq_entries, rng, sessions, ret>>

\* logic.py 260-262, and the loop's step to the next row
change_password_insert ==
  /\ task.op = "change_password" /\ task.pc = "insert"
  /\ entry_terms' = insert_entry_terms(
       index_pairs(Head(task.rows).id, new_search_key(task), task.title, task.body))
  /\ task' = [task EXCEPT !.rows = Tail(task.rows),
                          !.pc = loop_pc(Tail(task.rows))]
  /\ UNCHANGED <<users, entries, seq_entries, rng, sessions, ret>>

\* logic.py 264-278: the credential swap and the returned session
change_password_credentials ==
  /\ task.op = "change_password" /\ task.pc = "cred"
  /\ users' = update_user_credentials(task.sess.user_id, task.new.pwd_hash,
                                      task.new.kek_salt, task.new.dek_wrapped,
                                      task.new.dek_wrap_nonce)
  /\ sessions' = sessions \cup
       {SessionKeys(task.sess.user_id, task.sess.username, task.new.dek)}
  /\ Return("change_password", "ok")
  /\ UNCHANGED <<entries, entry_terms, seq_entries, rng>>

\* a db call of the migration (logic.py 247, 259, 262, 264) raises, or the
\* process stops there: the handler ends without reaching the later calls
change_password_fault ==
  /\ task.op = "change_password"
  /\ Return("change_password", "StoreError")
  /\ UNCHANGED <<store, seq_entries, rng, sessions>>

\* ------------------------------------------------------- reset_password
\* logic.py 287-300: validation, answer check, backup
reset_password_begin(username, security_answer, new_password) ==
  /\ task.op = "idle"
  /\ UNCHANGED <<store, seq_entries, rng, sessions>>
  /\ IF security_answer = <<>> \/ new_password = <<>>
       THEN Return("reset_password", "ValidationError")
     ELSE IF get_user_by_username(username) = {}
       THEN Return("reset_password", "UserNotFound")
     ELSE LET row == CHOOSE r \in get_user_by_username(username) : TRUE IN
       IF ~PH_verify(row.security_answer_hash, security_answer)
         THEN Return("reset_password", "AuthenticationFailure")
       ELSE \E copy_ok \in BOOLEAN :
         IF ~backup_database(copy_ok).ok
           THEN Return("reset_password", "BackupFailure")
         ELSE /\ rng < MaxKeys
              /\ task' = [op |-> "reset_password",
                          pc |-> "delete",
                          row |-> row,
                          username |-> username,
                          new_password |-> new_password,
                          backup |-> backup_database(copy_ok).copy]
              /\ ret' = Pending

\* logic.py 301
reset_password_delete ==
  /\ task.op = "reset_password" /\ task.pc = "delete"
  /\ entries' = delete_entries_for_user(task.row.id)
  /\ entry_terms' = terms_after_delete(
       {e.id : e \in {x \in entries : x.user_id = task.row.id}})
  /\ task' = [task EXCEPT !.pc = "cred"]
  /\ UNCHANGED <<users, seq_entries, rng, sessions, ret>>

\* logic.py 303-316
reset_password_credentials(nonce) ==
  /\ task.op = "reset_password" /\ task.pc = "cred"
  /\ LET c == new_credentials(task.username, task.new_password, nonce)
     IN users' = update_user_credentials(task.row.id, c.pwd_hash, c.kek_salt,
                                         c.dek_wrapped, c.dek_wrap_nonce)
  /\ rng' = rng + 1
  /\ Return("reset_password", "ok")
  /\ UNCHANGED <<entries, entry_terms, seq_entries, sessions>>

\* a db call of the reset (logic.py 301, 310) raises, or the process stops
reset_password_fault ==
  /\ task.op = "reset_password"
  /\ Return("reset_password", "StoreError")
  /\ UNCHANGED <<store, seq_entries, rng, sessions>>

\* --------------------------------------------------------------- entries
\* logic.py 325-342: encrypt title, body and map, insert the row
add_entry_row(sess, title, body, nt, nb, nm) ==
  /\ task.op = "idle"
  /\ seq_entries < MaxEntries
  /\ LET aad == encode(sess.username)
         t == aesgcm_encrypt(sess.enc_key, nt, encode(title), aad)
         b == aesgcm_encrypt(sess.enc_key, nb, encode(body), aad)
         m == aesgcm_encrypt(sess.enc_key, nm,
                             encode_map(render_entry_map_text(title, body)), aad)
     IN entries' = insert_entry_row(sess.user_id, utcnow, t, b, m, "ascii")
  /\ seq_entries' = seq_entries + 1
  /\ task' = [op |-> "add_entry", pc |-> "terms", sess |-> sess,
              eid |-> seq_entries + 1, title |-> title, body |-> body]
  /\ ret' = Pending
  /\ UNCHANGED <<users, entry_terms, rng, sessions>>

\* logic.py 345-349
add_entry_terms ==
  /\ task.op = "add_entry" /\ task.pc = "terms"
  /\ entry_terms' = insert_entry_terms(
       index_pairs(task.eid, task.sess.search_key, task.title, task.body))
  /\ Return("add_entry", "ok")
  /\ UNCHANGED <<users, entries, seq_entries, rng, sessions>>

\* logic.py 355-359
update_entry_row_step(sess, entry_id, new_title, new_body, nt, nb) ==
  /\ task.op = "idle"
  /\ LET aad == encode(sess.username)
         t == aesgcm_encrypt(sess.enc_key, nt, encode(new_title), aad)
         b == aesgcm_encrypt(sess.enc_key, nb, encode(new_body), aad)
     IN entries' = update_entry_row(entry_id, sess.user_id, t, b)
  /\ task' = [op |-> "update_entry", pc |-> "clear", sess |-> sess,
              eid |-> entry_id, title |-> new_title, body |-> new_body]
  /\ ret' = Pending
  /\ UNCHANGED <<users, entry_terms, seq_entries, rng, sessions>>

\* logic.py 362
update_entry_clear ==
  /\ task.op = "update_entry" /\ task.pc = "clear"
  /\ entry_terms' = clear_entry_terms(task.eid)
  /\ task' = [task EXCEPT !.pc = "insert"]
  /\ UNCHANGED <<users, entries, seq_entries, rng, sessions, ret>>

\* logic.py 363-366
update_entry_insert ==
  /\ task.op = "update_entry" /\ task.pc = "insert"
  /\ LET pairs == index_pairs(task.eid, task.sess.search_key, task.title, task.body)
     IN entry_terms' = IF pairs # {} THEN insert_entry_terms(pairs) ELSE entry_terms
  /\ Return("update_entry", "ok")
  /\ UNCHANGED <<users, entries, seq_entries, rng, sessions>>

\* logic.py 369-370
delete_entry(sess, entry_id) ==
  /\ task.op = "idle"
  /\ entries' = delete_entry_row(entry_id, sess.user_id)
  /\ entry_terms' = terms_after_delete(
       {e.id : e \in get_entry_row(sess.user_id, entry_id)})
  /\ Return("delete_entry", "ok")
  /\ UNCHANGED <<users, seq_entries, rng, sessions>>

\* ---------------------------------------------------------------- reads
\* get_entry: the decrypted (title, body) of a row, or the error kind
get_entry(sess, entry_id) ==
  LET rows == get_entry_row(sess.user_id, entry_id) IN
  IF rows = {} THEN [err |-> "EntryNotFound"]
  ELSE LET r == CHOOSE x \in rows : TRUE
           aad == encode(sess.username)
           title == aesgcm_decrypt(sess.enc_key, r.title_nonce, r.title_ct, aad)
           body == aesgcm_decrypt(sess.enc_key, r.body_nonce, r.body_ct, aad)
       IN IF ~title.ok \/ ~body.ok THEN [err |-> "InvalidTag"]
          ELSE [err |-> "ok", title |-> decode(title.pt), body |-> decode(body.pt)]

\* list_entries: (id, created_at, title) of the user's rows, newest first
\* (db.list_entry_headers selects and orders the rows as
\* list_entry_rows_for_user does), or the error kind
list_entries(sess) ==
  LET rows == list_entry_rows_for_user(sess.user_id)
      title(r) == aesgcm_decrypt(sess.enc_key, r.title_nonce, r.title_ct,
                                 encode(sess.username))
  IN IF \E i \in 1..Len(rows) : ~title(rows[i]).ok THEN [err |-> "InvalidTag"]
     ELSE [err |-> "ok",
           out |-> [i \in 1..Len(rows) |->
                      <<rows[i].id, rows[i].created_at, decode(title(rows[i]).pt)>>]]

\* get_entry_with_map: title, body and the stored map of a row, or the
\* error kind; the map text is empty when the row holds no map
get_entry_with_map(sess, entry_id) ==
  LET rows == get_entry_row(sess.user_id, entry_id) IN
  IF rows = {} THEN [err |-> "EntryNotFound"]
  ELSE LET r == CHOOSE x \in rows : TRUE
           aad == encode(sess.username)
           title == aesgcm_decrypt(sess.enc_key, r.title_nonce, r.title_ct, aad)
           body == aesgcm_decrypt(sess.enc_key, r.body_nonce, r.body_ct, aad)
           map == IF r.map_ct = <<>> THEN [ok |-> TRUE, pt |-> encode_map(<<>>)]
                  ELSE aesgcm_decrypt(sess.enc_key, r.map_nonce[1], r.map_ct[1], aad)
       IN IF ~title.ok \/ ~body.ok \/ ~map.ok THEN [err |-> "InvalidTag"]
          ELSE [err |-> "ok", title |-> decode(title.pt), body |-> decode(body.pt),
                map_text |-> decode_map(map.pt), map_format |-> r.map_format]

\* set.intersection(*id_sets)
RECURSIVE intersection(_)
intersection(id_sets) ==
  IF Len(id_sets) = 1 THEN Head(id_sets)
  ELSE Head(id_sets) \cap intersection(Tail(id_sets))

\* search_entries over a given entry_terms table: the set of ids returned
search_in(terms, sess, query) ==
  LET tokens == normalize_tokens(query)
      id_sets == [i \in 1..Len(tokens) |->
                    {r.entry_id : r \in {x \in terms :
                        x.term_hash = hmac_token(sess.search_key, tokens[i])}}]
  IN IF tokens = <<>> THEN {} ELSE intersection(id_sets)

\* mutant: sorted without reverse=True
RECURSIVE sorted_asc(_)
sorted_asc(ids) ==
  IF ids = {} THEN <<>>
  ELSE LET m == CHOOSE x \in ids : \A y \in ids : x <= y
       IN <<m>> \o sorted_asc(ids \ {m})

\* sorted(ids, reverse=True)
RECURSIVE sorted_desc(_)
sorted_desc(ids) ==
  IF ids = {} THEN <<>>
  ELSE LET m == CHOOSE x \in ids : \A y \in ids : x >= y
       IN <<m>> \o sorted_desc(ids \ {m})

\* search_entries: the list of ids returned (logic.py 407)
search_entries(sess, query) == sorted_desc(search_in(entry_terms, sess, query))

\* mutant: only trailing whitespace is stripped
security_question_result_rstrip(username) ==
  LET rows == get_user_by_username(username) IN
  IF rows = {} THEN [err |-> "UserNotFound"]
  ELSE LET question == rstrip((CHOOSE r \in rows : TRUE).security_question)
       IN IF question = <<>> THEN [err |-> "ValidationError"]
          ELSE [err |-> "ok", question |-> question]

\* the outcome of get_security_question on the current store: the error
\* kind, or the stripped question (db.get_user_security_question selects
\* the row by username as get_user_by_username does)
security_question_result(username) ==
  LET rows == get_user_by_username(username) IN
  IF rows = {} THEN [err |-> "UserNotFound"]
  ELSE LET question == strip((CHOOSE r \in rows : TRUE).security_question)
       IN IF question = <<>> THEN [err |-> "ValidationError"]
          ELSE [err |-> "ok", question |-> question]

get_security_question(username) ==
  /\ task.op = "idle"
  /\ Return("get_security_question", security_question_result(username).err)
  /\ UNCHANGED <<store, seq_entries, rng, sessions>>

\* ------------------------------------------------------------------ next
Next ==
  \/ \E u \in Usernames, p \in RegisterPasswords, q \in Questions, a \in Answers \cup {<<>>},
        n \in Nonces : register_user(u, p, q, a, n)
  \/ \E u \in UsernameInputs, p \in Passwords : login_user(u, p)
  \/ \E s \in sessions, c \in PasswordInputs, p \in NewPasswords, n \in Nonces :
        change_password_begin(s, c, p, n)
  \/ \E nt \in Nonces, nb \in Nonces, nm \in Nonces : change_password_row(nt, nb, nm)
  \/ change_password_clear
  \/ change_password_insert
  \/ change_password_credentials
  \/ change_password_fault
  \/ \E u \in UsernameInputs, a \in AnswerInputs, p \in NewPasswords :
        reset_password_begin(u, a, p)
  \/ reset_password_delete
  \/ \E n \in Nonces : reset_password_credentials(n)
  \/ reset_password_fault
  \/ \E s \in sessions, x \in Texts,
        nt \in Nonces, nb \in Nonces, nm \in Nonces :
        add_entry_row(s, x.title, x.body, nt, nb, nm)
  \/ add_entry_terms
  \/ \E s \in sessions, i \in EntryIds, x \in Texts,
        nt \in Nonces, nb \in Nonces :
        update_entry_row_step(s, i, x.title, x.body, nt, nb)
  \/ update_entry_clear
  \/ update_entry_insert
  \/ \E s \in sessions, i \in EntryIds : delete_entry(s, i)

Spec == Init /\ [][Next]_vars

\* =========================================================== properties
\* what the properties read off the store
owned(rows, user_id) == {e \in rows : e.user_id = user_id}
terms_of(rows, entry_id) == {r \in rows : r.entry_id = entry_id}

\* the title and body of a row as a session reads them (get_entry on the row)
row_plain(sess, e) ==
  LET aad == encode(sess.username)
      title == aesgcm_decrypt(sess.enc_key, e.title_nonce, e.title_ct, aad)
      body == aesgcm_decrypt(sess.enc_key, e.body_nonce, e.body_ct, aad)
  IN [ok |-> title.ok /\ body.ok, title_ok |-> title.ok, body_ok |-> body.ok,
      title |-> decode(title.pt), body |-> decode(body.pt)]

\* the session keys of the DEK that a user row wraps now
current_session(u) == SessionKeys(u.id, u.username, u.dek_wrapped.pt)

\* the plaintext a row holds, whatever key it is under
held_title(e) == decode(e.title_ct.pt)
held_body(e) == decode(e.body_ct.pt)

Bulk == {"change_password", "reset_password"}
MigrationPcs == {"row", "clear", "insert"}

\* a step in which change_password ends, failed, inside its migration loop
MigrationFails ==
  /\ task.op = "change_password" /\ task.pc \in MigrationPcs
  /\ task'.op = "idle"

\* a step in which change_password returns its new session
ChangeSucceeds ==
  /\ task.op = "change_password"
  /\ ret' = <<"change_password", "ok">>

\* C1: when change_password fails while migrating an entry, the credential
\* row is unchanged and every entry of the user that the old session could
\* read is still readable under the old session's key and indexed under the
\* old search key; nothing is left under the new key.
C1_FailedChangeLeavesOldEpoch ==
  [][MigrationFails =>
       /\ users' = task.backup.users
       /\ \A e \in owned(task.backup.entries, task.sess.user_id) :
            row_plain(task.sess, e).ok =>
              \E f \in entries' :
                /\ f.id = e.id
                /\ row_plain(task.sess, f).ok
                /\ row_plain(task.sess, f).title = row_plain(task.sess, e).title
                /\ row_plain(task.sess, f).body = row_plain(task.sess, e).body
                /\ terms_of(entry_terms', f.id) = terms_of(task.backup.entry_terms, e.id)
       /\ \A f \in entries' : f.title_ct.key # new_enc_key(task)
       /\ \A r \in entry_terms' : r.term_hash.hmac # new_search_key(task)]_vars

\* C2: after any sequence of completed operations every stored entry decrypts
\* under the encryption key of the DEK that its owner's user row wraps.
C2_EntriesUnderCurrentKey ==
  task.op = "idle" =>
    \A e \in entries : \A u \in users :
      u.id = e.user_id => row_plain(current_session(u), e).ok

\* a step in which add_entry, update_entry or change_password completes, and
\* the entries it affected
Affected ==
  IF task.op = "add_entry" /\ ret' = <<"add_entry", "ok">>
    THEN {e \in entries' : e.id = task.eid}
  ELSE IF task.op = "update_entry" /\ ret' = <<"update_entry", "ok">>
    THEN {e \in owned(entries', task.sess.user_id) : e.id = task.eid}
  ELSE IF ChangeSucceeds
    THEN owned(entries', task.sess.user_id)
  ELSE {}

\* C3: after a completed add_entry, update_entry or change_password the term
\* rows of each affected entry are exactly the keyed digests of the tokens of
\* its current title and body under its owner's current search key.
C3_IndexMatchesCurrentKey ==
  [][\A e \in Affected : \A u \in users' :
       u.id = e.user_id =>
         terms_of(entry_terms', e.id) =
           index_pairs(e.id, current_session(u).search_key,
                       held_title(e), held_body(e))]_vars

\* the session that change_password returns
returned_session(t) == SessionKeys(t.sess.user_id, t.sess.username, t.new.dek)

\* C4: after change_password succeeds, every entry the user owned before the
\* call reads back with the same title and body under the returned session,
\* and neither field decrypts under the old session's key.
C4_ReencryptedUnderNewKeyOnly ==
  [][ChangeSucceeds =>
       \A e \in owned(task.backup.entries, task.sess.user_id) :
         \E f \in entries' :
           /\ f.id = e.id
           /\ row_plain(returned_session(task), f).ok
           /\ row_plain(returned_session(task), f).title = held_title(e)
           /\ row_plain(returned_session(task), f).body = held_body(e)
           /\ ~row_plain(task.sess, f).title_ok
           /\ ~row_plain(task.sess, f).body_ok]_vars

\* a change_password over two entries has returned
C4_Witness ==
  /\ ret = <<"change_password", "ok">>
  /\ Cardinality(entries) = 2
  /\ \A e \in entries : \A u \in users : row_plain(current_session(u), e).ok

\* C5: for every query, search with the session that change_password returns
\* gives the ids that search with the old session gave just before the call.
C5_SearchUnchangedByChange ==
  [][ChangeSucceeds =>
       \A q \in Queries :
         search_in(entry_terms', returned_session(task), q) =
           search_in(task.backup.entry_terms, task.sess, q)]_vars

\* C6: in every state the credential fields of a user row agree: a password
\* that the stored hash verifies unwraps the stored DEK (username as
\* associated data) under the KEK of the stored salt, and some password does.
C6_CredentialFieldsAgree ==
  \A u \in users :
    /\ \E p \in Passwords : PH_verify(u.pwd_hash, p)
    /\ \A p \in PasswordInputs :
         PH_verify(u.pwd_hash, p) =>
           /\ aesgcm_decrypt(wrap_key_of(p, u.kek_salt), u.dek_wrap_nonce,
                             u.dek_wrapped, encode(u.username)).ok
           /\ login_result(u.username, p).err = "ok"

\* a user row whose credentials were replaced twice
C6_Witness ==
  \E u \in users : u.kek_salt.rand = 3 /\ login_result(u.username, <<"b">>).err = "ok"

\* C7: change_password writes the credential row only when every entry of
\* the user is already re-encrypted and re-indexed under the new keys.
C7_CredentialsAfterMigration ==
  [][(task.op = "change_password" /\ users' # users) =>
       \A e \in owned(entries, task.sess.user_id) :
         /\ row_plain(returned_session(task), e).ok
         /\ ~row_plain(task.sess, e).title_ok
         /\ ~row_plain(task.sess, e).body_ok
         /\ terms_of(entry_terms, e.id) =
              index_pairs(e.id, returned_session(task).search_key,
                          held_title(e), held_body(e))]_vars

\* the credential row was swapped after a migration of two entries
C7_Witness ==
  /\ ret = <<"change_password", "ok">>
  /\ Cardinality(entries) = 2
  /\ \A e \in entries : \A u \in users :
       terms_of(entry_terms, e.id) =
         index_pairs(e.id, current_session(u).search_key, held_title(e), held_body(e))

BackupFailures ==
  {<<"change_password", "BackupFailure">>, <<"reset_password", "BackupFailure">>}

\* C8: change_password and reset_password take the backup before they modify
\* or delete any row: the step that starts either leaves the store unchanged
\* and holds a copy of exactly that store for the rest of the call; a call
\* whose backup fails ends with every row unchanged.
C8_BackupBeforeMutation ==
  [][/\ (task.op = "idle" /\ task'.op \in Bulk) =>
          (store' = store /\ task'.backup = Snapshot)
     /\ (task.op \in Bulk /\ task'.op = task.op) => task'.backup = task.backup
     /\ (task.op = "idle" /\ ret' \in BackupFailures) =>
          (store' = store /\ task'.op = "idle")]_vars

\* a change_password that has rewritten the entries still holds the copy of
\* the rows it started from
C8_Witness ==
  /\ task.op = "change_password" /\ task.pc = "cred"
  /\ task.backup.entries # {}
  /\ task.backup.entries # entries
  /\ task.backup.users = users

\* C9: a change_password that starts from a store whose entries all read
\* under the caller's session and fails during the migration leaves every
\* entry readable under that session and the password still verifying, so
\* the same call can be made again and complete.
C9_RetryAfterFailedMigration ==
  [][(/\ MigrationFails
      /\ \A e \in owned(task.backup.entries, task.sess.user_id) :
           row_plain(task.sess, e).ok) =>
       /\ \A e \in owned(entries', task.sess.user_id) : row_plain(task.sess, e).ok
       /\ \A u \in users' :
            u.id = task.sess.user_id => PH_verify(u.pwd_hash, task.current_password)]_vars

\* C10: when reset_password succeeds the user owns no entry, and no entry
\* the user owned before the call decrypts under the key of the DEK that
\* the user row wraps afterwards.
C10_ResetLeavesNoEntries ==
  [][(task.op = "reset_password" /\ ret' = <<"reset_password", "ok">>) =>
       /\ owned(entries', task.row.id) = {}
       /\ \A e \in owned(task.backup.entries, task.row.id) :
            \A u \in users' :
              u.id = task.row.id =>
                /\ ~row_plain(current_session(u), e).title_ok
                /\ ~row_plain(current_session(u), e).body_ok]_vars

\* a reset has returned in a store that held two entries and still holds
\* their term rows
C10_Witness ==
  /\ ret = <<"reset_password", "ok">>
  /\ seq_entries = 2
  /\ entry_terms # {}
  /\ entries = {}


ResetSucceeds == task.op = "reset_password" /\ ret' = <<"reset_password", "ok">>

\* C11: when reset_password succeeds, login with the new password succeeds
\* and login with the password the row verified before, when it differs,
\* fails with AuthenticationFailure; the same holds for the new and the
\* current password when change_password succeeds.
C11_LoginAfterCredentialSwap ==
  [][(ResetSucceeds \/ ChangeSucceeds) =>
     \A u \in UsernameInputs, p \in Passwords, old \in Passwords :
       /\ (ResetSucceeds /\ u = task.username /\ p = task.new_password) =>
            /\ login_result(u, p)'.err = "ok"
            /\ (old # p /\ task.row.pwd_hash = PH_hash(old)) =>
                 login_result(u, old)'.err = "AuthenticationFailure"
       /\ (ChangeSucceeds /\ u = task.sess.username
             /\ task.new.pwd_hash = PH_hash(p)) =>
            /\ login_result(u, p)'.err = "ok"
            /\ (old # p /\ old = task.current_password) =>
                 login_result(u, old)'.err = "AuthenticationFailure"]_vars

\* a change_password from "a" to "b" has returned
C11_Witness ==
  /\ ret = <<"change_password", "ok">>
  /\ login_result(<<"a">>, <<"b">>).err = "ok"
  /\ login_result(<<"a">>, <<"a">>).err = "AuthenticationFailure"

\* the step is the first or the only step of a call of op
FirstStep(op) == task.op = "idle" /\ (ret' = Pending \/ ret'[1] = op)

\* C12: a reset_password call with all arguments present, for an existing
\* user, whose answer is not the one the stored answer hash was made from,
\* fails with AuthenticationFailure, takes no backup and leaves every user,
\* entry and term row unchanged.
C12_ResetWrongAnswer ==
  [][FirstStep("reset_password") =>
     \A u \in UsernameInputs, a \in AnswerInputs, p \in NewPasswords :
       (/\ a # <<>> /\ p # <<>>
        /\ \E r \in users : r.username = u /\ r.security_answer_hash.argon2 # encode(a)
        /\ reset_password_begin(u, a, p)) =>
         /\ ret' = <<"reset_password", "AuthenticationFailure">>
         /\ task' = Idle
         /\ store' = store]_vars

\* a reset with a wrong answer has returned in a store that holds entries
C12_Witness ==
  /\ ret = <<"reset_password", "AuthenticationFailure">>
  /\ entries # {}
  /\ entry_terms # {}

\* C13: a change_password call with both passwords present whose
\* current_password is not the one the stored hash was made from fails with
\* AuthenticationFailure, with no backup taken and no user, entry or term
\* row modified.
C13_ChangeWrongPassword ==
  [][FirstStep("change_password") =>
     \A s \in sessions, c \in PasswordInputs, p \in NewPasswords, n \in Nonces :
       (/\ c # <<>> /\ p # <<>>
        /\ \E r \in users : r.username = s.username /\ r.pwd_hash.argon2 # encode(c)
        /\ change_password_begin(s, c, p, n)) =>
         /\ ret' = <<"change_password", "AuthenticationFailure">>
         /\ task' = Idle
         /\ store' = store]_vars

\* a change_password with a wrong current password has returned in a store
\* that holds entries
C13_Witness ==
  /\ ret = <<"change_password", "AuthenticationFailure">>
  /\ entries # {}
  /\ entry_terms # {}


\* C14: login_user leaves the store unchanged; it fails with UserNotFound
\* when no row has the username, with AuthenticationFailure when a row has it
\* and the password is not the one its hash was made from, and otherwise
\* returns the session of the row's id, username and wrapped DEK.  The hash
\* of a row made by register_user is the hash of the registered password.
C14_LoginOutcomes ==
  [][/\ FirstStep("login") =>
          \A u \in UsernameInputs, p \in Passwords :
            login_user(u, p) =>
              /\ store' = store
              /\ (\A r \in users : r.username # u) =>
                   (ret' = <<"login", "UserNotFound">> /\ sessions' = sessions)
              /\ \A r \in users :
                   r.username = u =>
                     IF r.pwd_hash.argon2 # encode(p)
                       THEN /\ ret' = <<"login", "AuthenticationFailure">>
                            /\ sessions' = sessions
                       ELSE /\ ret' = <<"login", "ok">>
                            /\ sessions' = sessions \cup
                                 {SessionKeys(r.id, r.username, r.dek_wrapped.pt)}
     /\ ret' = <<"register", "ok">> =>
          \A r \in users' \ users, p \in Passwords :
            login_result(r.username, p)'.err =
              IF r.pwd_hash.argon2 = encode(p) THEN "ok" ELSE "AuthenticationFailure"]_vars

\* a login of the registered user with a wrong password has failed after
\* an earlier login returned a session
C14_Witness ==
  /\ ret = <<"login", "AuthenticationFailure">>
  /\ users # {}
  /\ sessions # {}

\* the text is empty or whitespace only
IsBlank(s) == \A i \in 1..Len(s) : s[i] \in SpaceChars

\* C15: register_user with an empty or whitespace-only security question or
\* answer fails with ValidationError and inserts no user row.
C15_RegisterBlankQuestionOrAnswer ==
  [][FirstStep("register") =>
     \A u \in Usernames, p \in RegisterPasswords, q \in Questions,
        a \in Answers \cup {<<>>}, n \in Nonces :
       ((IsBlank(q) \/ IsBlank(a)) /\ register_user(u, p, q, a, n)) =>
         /\ ret' = <<"register", "ValidationError">>
         /\ store' = store]_vars

\* a register call was rejected for its blank question or answer
C15_Witness ==
  /\ ret = <<"register", "ValidationError">>
  /\ users = {}

\* C16: register_user with a username that some row already has fails with
\* DuplicateUser and leaves every user, entry and term row unchanged; no two
\* user rows ever have the same username.
C16_RegisterDuplicate ==
  [][/\ \A r1 \in users', r2 \in users' : r1.username = r2.username => r1 = r2
     /\ FirstStep("register") =>
          \A u \in Usernames, p \in RegisterPasswords, q \in Questions,
             a \in Answers \cup {<<>>}, n \in Nonces :
            (/\ ~IsBlank(q) /\ ~IsBlank(a)
             /\ \E r \in users : r.username = u
             /\ register_user(u, p, q, a, n)) =>
              /\ ret' = <<"register", "DuplicateUser">>
              /\ store' = store]_vars

\* a second register_user of the same username was rejected while the first
\* user's entries are in the store
C16_Witness ==
  /\ ret = <<"register", "DuplicateUser">>
  /\ Cardinality(users) = 1
  /\ entries # {}


\* the sessions that login_user returns in this state
CurrentSessions == {current_session(u) : u \in users}

\* the ids of the user's entries whose title and body hold every token
matching(sess, query) ==
  {e.id : e \in {x \in owned(entries, sess.user_id) :
     Range(normalize_tokens(query)) \subseteq
       entry_terms_of(held_title(x), held_body(x))}}

\* C17: while no call is in flight, for a query with at least one token
\* search_entries with a session of the current credentials returns exactly
\* the ids of the user's entries whose title and body contain every token.
C17_SearchExact ==
  task.op = "idle" =>
    \A s \in sessions \cap CurrentSessions, q \in Queries :
      normalize_tokens(q) # <<>> =>
        Range(search_entries(s, q)) = matching(s, q)

ZeroTokenQueries ==
  {q \in Queries \cup {<<>>, <<" ">>, <<"_", "!">>, <<"\n", "?">>} :
     \A i \in 1..Len(q) : q[i] \notin WordChars}

\* C18: for a query without tokens (empty, or whitespace and punctuation
\* only) search_entries returns the empty list, whatever the store holds.
C18_SearchWithoutTokens ==
  \A s \in sessions, q \in ZeroTokenQueries : search_entries(s, q) = <<>>

\* a session finds an entry by a token and nothing by a query without tokens
C18_Witness ==
  \E s \in sessions :
    /\ search_entries(s, <<"a">>) # <<>>
    /\ search_entries(s, <<"?">>) = <<>>
    /\ entries # {}

\* C19: the list search_entries returns is strictly descending in entry id,
\* so it holds no id twice.
C19_SearchOrder ==
  \A s \in sessions, q \in Queries :
    LET ids == search_entries(s, q)
    IN \A i \in 1..(Len(ids) - 1) : ids[i] > ids[i + 1]

\* a search returns two ids
C19_Witness ==
  \E s \in sessions, q \in Queries : Len(search_entries(s, q)) = 2

\* C20: after delete_entry has deleted an entry, and after the bulk delete
\* of reset_password, no term row references a deleted entry id.
C20_DeleteRemovesTerms ==
  [][/\ (task.op = "idle" /\ ret' = <<"delete_entry", "ok">>) =>
          \A e \in entries \ entries' : terms_of(entry_terms', e.id) = {}
     /\ (task.op = "reset_password" /\ task.pc = "delete" /\ task'.op = "reset_password") =>
          \A e \in entries \ entries' : terms_of(entry_terms', e.id) = {}]_vars


\* the entry ids whose term rows a handler in flight is rebuilding
Rebuilding ==
  IF task.op = "update_entry" THEN {task.eid}
  ELSE IF task.op = "change_password" /\ task.pc \in {"clear", "insert"}
    THEN {Head(task.rows).id}
  ELSE {}

\* the search key that belongs to the key a row's title is encrypted under
row_search_key(e) == search_key_of(e.title_ct.key.hkdf)

\* C21: in every state a reader can see while update_entry or the per-entry
\* step of change_password rebuilds an entry's term rows, the rows of that
\* entry are the digests of the stored title and body under the search key
\* of the key they are encrypted with: never none, never the old ones beside
\* the new ciphertext.
C21_RebuildAtomicForReaders ==
  \A e \in entries :
    e.id \in Rebuilding =>
      terms_of(entry_terms, e.id) =
        index_pairs(e.id, row_search_key(e), held_title(e), held_body(e))

\* C23: a SessionKeys object comes into being in a successful login only.
C23_OnlyLoginCreatesSessions ==
  [][sessions' # sessions => ret' = <<"login", "ok">>]_vars

\* C26: when update_entry returns, get_entry_with_map gives for the updated
\* entry the map rendered from the new title and body.
C26_UpdateRegeneratesMap ==
  [][(task.op = "update_entry" /\ ret' = <<"update_entry", "ok">>) =>
       \A e \in owned(entries', task.sess.user_id) :
         e.id = task.eid =>
           \A s \in sessions, i \in EntryIds :
             (s = task.sess /\ i = task.eid) =>
               /\ get_entry_with_map(s, i)'.err = "ok"
               /\ get_entry_with_map(s, i)'.map_text =
                    render_entry_map_text(task.title, task.body)]_vars

\* C27: no step of an update_entry call whose session does not own the entry
\* id changes an entry or the term rows stored for that id.
C27_UpdateOfForeignIdChangesNothing ==
  [][(task.op = "update_entry" /\ get_entry_row(task.sess.user_id, task.eid) = {}) =>
       /\ entries' = entries
       /\ terms_of(entry_terms', task.eid) = terms_of(entry_terms, task.eid)]_vars

\* C29: while no call is in flight, every id that search_entries returns to
\* a session is the id of an entry of the session's user that get_entry
\* reads.
C29_SearchReturnsReadableEntries ==
  task.op = "idle" =>
    \A s \in sessions, q \in Queries :
      \A i \in Range(search_entries(s, q)) : get_entry(s, i).err = "ok"

\* C30: no reset_password call ends with the user's entries deleted and the
\* user row still the one from before the call.
C30_ResetAllOrNothing ==
  [][(task.op = "reset_password" /\ task'.op = "idle") =>
       ~(/\ owned(task.backup.entries, task.row.id) # {}
         /\ owned(entries', task.row.id) = {}
         /\ users' = task.backup.users)]_vars


\* ----------------------------------------------------- stored user rows
\* login_user and get_security_question read whatever the users table of
\* the database file holds: the row register_user wrote, a row of a database
\* from before the security columns (migrate_db fills them with ''), or a
\* row whose password hash, KEK salt, wrapped DEK, wrap nonce or username was
\* altered in the file.
StoredQuestions == {<<"c", "?">>, <<" ", "c", "?">>, <<" ">>, <<>>}

WrapNonces == {"n0", "n1"}

\* the wrapped DEK that register_user("a", "a", ...) writes
registered_wrap ==
  aesgcm_encrypt(wrap_key_of(<<"a">>, token_bytes(1, 16)), "n0",
                 token_bytes(1, DEK_LEN), encode(<<"a">>)).ct

\* a ciphertext with a byte flipped: no key authenticates it
flipped(ct) == [ct EXCEPT !.key = [flipped |-> ct.key]]

StoredUserRows ==
  {[id |-> 1,
    username |-> u,
    pwd_hash |-> PH_hash(p),
    kek_salt |-> token_bytes(k, 16),
    dek_wrapped |-> IF f THEN flipped(registered_wrap) ELSE registered_wrap,
    dek_wrap_nonce |-> n,
    security_question |-> q,
    security_answer_hash |-> PH_hash(<<"c">>)] :
     u \in UsernameInputs, p \in Passwords, k \in 1..2, f \in BOOLEAN,
     n \in WrapNonces, q \in StoredQuestions}

InitStoredRow ==
  /\ users \in {{r} : r \in StoredUserRows}
  /\ entries = {}
  /\ entry_terms = {}
  /\ seq_entries = 0
  /\ rng = 1
  /\ sessions = {}
  /\ task = Idle
  /\ ret = <<"init_db", "ok">>

NextStoredRow ==
  \/ \E u \in UsernameInputs, p \in Passwords : login_user(u, p)
  \/ \E u \in UsernameInputs : get_security_question(u)

SpecStoredRow == InitStoredRow /\ [][NextStoredRow]_vars

\* C22: a login that fails reports UserNotFound or AuthenticationFailure,
\* whether the password is wrong or the stored wrapped DEK, wrap nonce, KEK
\* salt or username does not unwrap; no other error kind reaches the caller.
C22_TamperReportedAsAuthFailure ==
  ret[1] = "login" => ret[2] \in {"ok", "UserNotFound", "AuthenticationFailure"}

\* q is text with its leading and trailing whitespace removed
Trimmed(q, text) ==
  \E i \in 1..Len(text), j \in 1..Len(text) :
    /\ q = SubSeq(text, i, j)
    /\ text[i] \notin SpaceChars /\ text[j] \notin SpaceChars
    /\ \A k \in 1..Len(text) : (k < i \/ k > j) => text[k] \in SpaceChars

\* C24 as stated: get_security_question fails with UserNotFound when no row
\* has the username, with ValidationError when the stored question is empty
\* or whitespace only, and otherwise returns the stored question text.
C24_QuestionReturnedAsStored ==
  \A u \in UsernameInputs :
    /\ (\A r \in users : r.username # u) =>
         security_question_result(u).err = "UserNotFound"
    /\ \A r \in users :
         r.username = u =>
           IF IsBlank(r.security_question)
             THEN security_question_result(u).err = "ValidationError"
             ELSE /\ security_question_result(u).err = "ok"
                  /\ security_question_result(u).question = r.security_question

\* C24 amended: as above, but the text returned is the stored question
\* without its leading and trailing whitespace; the call changes no row.
C24_QuestionReturnedStripped ==
  /\ [](\A u \in UsernameInputs :
          /\ (\A r \in users : r.username # u) =>
               security_question_result(u).err = "UserNotFound"
          /\ \A r \in users :
               r.username = u =>
                 IF IsBlank(r.security_question)
                   THEN security_question_result(u).err = "ValidationError"
                   ELSE /\ security_question_result(u).err = "ok"
                        /\ Trimmed(security_question_result(u).question,
                                   r.security_question))
  /\ [][ret'[1] = "get_security_question" => store' = store]_vars

\* get_security_question has returned the question of a row that stores it
\* with leading whitespace
C24_Witness ==
  /\ ret = <<"get_security_question", "ok">>
  /\ \E r \in users :
       /\ r.security_question = <<" ", "c", "?">>
       /\ security_question_result(r.username).question = <<"c", "?">>


\* ------------------------------------------------------ field encryption
\* aesgcm_encrypt and aesgcm_decrypt applied to drawn keys, plaintexts and
\* associated data: the field is sealed, then opened with a key, nonce and
\* associated data that may differ, from bytes that may have been altered.
CryptoKeys ==
  {enc_key_of(token_bytes(1, DEK_LEN)), enc_key_of(token_bytes(2, DEK_LEN)),
   wrap_key_of(<<"a">>, token_bytes(1, 16))}

CryptoTexts == {encode(<<>>), encode(<<"a">>), encode(<<"A", "b">>)}

CryptoAads == {encode(u) : u \in UsernameInputs}

InitCrypto ==
  /\ users = {}
  /\ entries = {}
  /\ entry_terms = {}
  /\ seq_entries = 0
  /\ rng = 0
  /\ sessions = {}
  /\ task \in {[op |-> "aesgcm", pc |-> "encrypt", key |-> k, plaintext |-> m, aad |-> a] :
                 k \in CryptoKeys, m \in CryptoTexts, a \in CryptoAads}
  /\ ret = Pending

encrypt_field(nonce) ==
  /\ task.op = "aesgcm" /\ task.pc = "encrypt"
  /\ task' = [op |-> "aesgcm", pc |-> "decrypt", key |-> task.key,
              plaintext |-> task.plaintext, aad |-> task.aad,
              sealed |-> aesgcm_encrypt(task.key, nonce, task.plaintext, task.aad)]
  /\ UNCHANGED <<store, seq_entries, rng, sessions, ret>>

decrypt_field(key, nonce, aad, flip) ==
  /\ task.op = "aesgcm" /\ task.pc = "decrypt"
  /\ LET ct == IF flip THEN flipped(task.sealed.ct) ELSE task.sealed.ct
         out == aesgcm_decrypt(key, nonce, ct, aad)
     IN /\ task' = [op |-> "aesgcm", pc |-> "done", key |-> task.key,
                    plaintext |-> task.plaintext, aad |-> task.aad,
                    sealed |-> task.sealed,
                    opened |-> [key |-> key, nonce |-> nonce, aad |-> aad, flip |-> flip],
                    out |-> out]
        /\ ret' = <<"aesgcm_decrypt", IF out.ok THEN "ok" ELSE "InvalidTag">>
  /\ UNCHANGED <<store, seq_entries, rng, sessions>>

NextCrypto ==
  \/ \E n \in WrapNonces : encrypt_field(n)
  \/ \E k \in CryptoKeys, n \in WrapNonces, a \in CryptoAads, f \in BOOLEAN :
        decrypt_field(k, n, a, f)

SpecCrypto == InitCrypto /\ [][NextCrypto]_vars

registered_row(id, username, password, k) ==
  LET kek_salt == token_bytes(k, 16)
      w == aesgcm_encrypt(wrap_key_of(password, kek_salt), "n0",
                          token_bytes(k, DEK_LEN), encode(username))
  IN [id |-> id,
      username |-> username,
      pwd_hash |-> PH_hash(password),
      kek_salt |-> kek_salt,
      dek_wrapped |-> w.ct,
      dek_wrap_nonce |-> w.nonce,
      security_question |-> <<"c", "?">>,
      security_answer_hash |-> PH_hash(<<"c">>)]

InitTwoUsers ==
  /\ users = {registered_row(1, <<"a">>, <<"a">>, 1), registered_row(2, <<"b">>, <<"b">>, 2)}
  /\ entries = {}
  /\ entry_terms = {}
  /\ seq_entries = 0
  /\ rng = 2
  /\ sessions = {current_session(u) : u \in users}
  /\ task = Idle
  /\ ret = <<"login", "ok">>

NextTwoUsers ==
  \/ \E s \in sessions, x \in Texts, nt \in Nonces, nb \in Nonces, nm \in Nonces :
        add_entry_row(s, x.title, x.body, nt, nb, nm)
  \/ add_entry_terms
  \/ \E s \in sessions, i \in EntryIds, x \in Texts, nt \in Nonces, nb \in Nonces :
        update_entry_row_step(s, i, x.title, x.body, nt, nb)
  \/ update_entry_clear
  \/ update_entry_insert
  \/ \E s \in sessions, i \in EntryIds : delete_entry(s, i)

SpecTwoUsers == InitTwoUsers /\ [][NextTwoUsers]_vars

\* the ids that list_entries returns
listed(sess) == {list_entries(sess).out[i][1] : i \in 1..Len(list_entries(sess).out)}

\* C28: with a session of one user, get_entry and get_entry_with_map report
\* an entry of another user as not found, list_entries lists exactly the
\* ids of the session's user, and delete_entry leaves every entry of
\* another user in place.
C28_OwnEntriesOnly ==
  /\ [](\A s \in sessions :
          /\ list_entries(s).err = "ok"
          /\ listed(s) = {e.id : e \in owned(entries, s.user_id)}
          /\ \A e \in entries :
               e.user_id # s.user_id =>
                 /\ get_entry(s, e.id).err = "EntryNotFound"
                 /\ get_entry_with_map(s, e.id).err = "EntryNotFound")
  /\ [][(task.op = "idle" /\ ret' = <<"delete_entry", "ok">>) =>
          \A s \in sessions, i \in EntryIds :
            delete_entry(s, i) =>
              \A e \in entries : e.user_id # s.user_id => e \in entries']_vars

\* a delete_entry call has returned while both entries ever added are still
\* stored, one per user: the id it named was not the caller's
C28_Witness ==
  /\ ret = <<"delete_entry", "ok">>
  /\ seq_entries = 2
  /\ \E e1 \in entries, e2 \in entries : e1.user_id = 1 /\ e2.user_id = 2
  /\ \A s \in sessions, e \in entries :
       e.user_id # s.user_id => get_entry(s, e.id).err = "EntryNotFound"

====
